---- MODULE Spec2Model ----
(***************************************************************************)
(* Model of src/app.py: the POST /add-navigation handler                   *)
(* (add_navigation) and the grounding extractor                            *)
(* (extract_toc_from_grounding).                                           *)
(*                                                                         *)
(* JSON objects (Python dicts) are records; an absent key is a name that   *)
(* is not in the record's DOMAIN.  JSON lists are sequences.  Text is a    *)
(* sequence of symbols over Alphabet, in which the literal "Page" is one   *)
(* symbol.  Box fractions are carried in hundredths (top = 10 is 0.10).    *)
(* An indirect reference is [pdf, idnum]: pdf names the document graph     *)
(* ("reader" = source, "writer" = output) that owns the object.            *)
(*                                                                         *)
(* The download of pdf_url (lines 88-102) is an external collaborator and  *)
(* is not modelled: Init is the state in which the bytes have arrived.     *)
(***************************************************************************)
EXTENDS Integers, Sequences, FiniteSets, TLC

VARIABLES data, source_pages, pc, page_count, toc_items, idx, annots,
          links_added, writer_objects, writer_pages, status,
          grounding_in, grounding_out

vars == <<data, source_pages, pc, page_count, toc_items, idx, annots,
          links_added, writer_objects, writer_pages, status,
          grounding_in, grounding_out>>

(* ---------------------------- bounds ----------------------------------- *)
MaxPages == 3
MaxSynthPages == 8
MaxItems == 2
MaxLen == 3
MaxContext == 1

(* ------------------------ program constants ---------------------------- *)
pdf_height == 792
default_start_y == 650
default_spacing == 60
rect_left == 50
rect_right == 570
rect_below == 10
rect_above == 30
label_len == 50

(* ------------------------------ helpers -------------------------------- *)
Has(d, k) == k \in DOMAIN d

\* dict.get(k, default)
Get(d, k, default) == IF k \in DOMAIN d THEN d[k] ELSE default

Min(a, b) == IF a < b THEN a ELSE b

SeqsUpTo(S, n) == UNION {[1..k -> S] : k \in 0..n}

(* ----------------------------- text ------------------------------------ *)
Alphabet == {"Page", " ", "1", "2", "x"}

Digits == {"1", "2"}

DigitVal(c) == IF c = "1" THEN 1 ELSE 2

\* 'Page' in markdown
ContainsPage(s) == \E i \in 1..Len(s) : s[i] = "Page"

\* the text after the first occurrence of "Page"
RECURSIVE AfterFirstPage(_)
AfterFirstPage(s) ==
    IF s = <<>> THEN <<>>
    ELSE IF Head(s) = "Page" THEN Tail(s)
    ELSE AfterFirstPage(Tail(s))

\* markdown.split('Page')[-1]: the text after the last occurrence of "Page"
RECURSIVE AfterLastPage(_)
AfterLastPage(s) ==
    IF s = <<>> THEN <<>>
    ELSE IF ContainsPage(Tail(s)) THEN AfterLastPage(Tail(s))
    ELSE IF Head(s) = "Page" THEN Tail(s)
    ELSE s

\* str.strip() followed by str.split(): leading whitespace is ignored
RECURSIVE LStrip(_)
LStrip(s) == IF s # <<>> /\ Head(s) = " " THEN LStrip(Tail(s)) ELSE s

\* the first whitespace-delimited token of s; <<>> when s has none, where
\* .split()[0] raises IndexError
RECURSIVE TakeToken(_)
TakeToken(s) ==
    IF s = <<>> \/ Head(s) = " " THEN <<>>
    ELSE <<Head(s)>> \o TakeToken(Tail(s))

FirstToken(s) == TakeToken(LStrip(s))

\* int(page_text) succeeds (no ValueError)
IsIntText(t) == t # <<>> /\ \A i \in 1..Len(t) : t[i] \in Digits

\* int(page_text)
RECURSIVE IntOf(_)
IntOf(t) ==
    IF t = <<>> THEN 0
    ELSE 10 * IntOf(SubSeq(t, 1, Len(t) - 1)) + DigitVal(t[Len(t)])

(* ----------------- extract_toc_from_grounding -------------------------- *)
\* lines 30-33: the chunks array of the payload.  A payload is
\* [isList |-> BOOLEAN, val |-> list or dict].
GetChunks(grounding_data) ==
    IF grounding_data.isList
    THEN IF grounding_data.val # <<>>
         THEN Get(grounding_data.val[1], "chunks", <<>>)
         ELSE <<>>
    ELSE Get(grounding_data.val, "chunks", <<>>)

\* lines 63-67: int(pdf_height - center_percent * pdf_height), with top and
\* bottom in hundredths; for fractions in [0,1] int() is the floor
YPosition(box) ==
    LET box_top == Get(box, "top", 0)
        box_bottom == Get(box, "bottom", 0)
    IN  (200 * pdf_height - (box_top + box_bottom) * pdf_height) \div 200

\* lines 42-76: the targets one chunk contributes (none or one)
ChunkItems(chunk) ==
    LET grounding == Get(chunk, "grounding", <<>>)
        markdown == Get(chunk, "markdown", <<>>)
        page_text == FirstToken(AfterLastPage(markdown))
    IN  IF Has(grounding, "page") /\ grounding.page = 0 /\ ContainsPage(markdown)
        THEN IF IsIntText(page_text)
             THEN << [y |-> YPosition(Get(grounding, "box", <<>>)),
                      page |-> IntOf(page_text),
                      label |-> SubSeq(markdown, 1, Min(label_len, Len(markdown)))] >>
             ELSE <<>>
        ELSE <<>>

RECURSIVE ExtractLoop(_)
ExtractLoop(chunks) ==
    IF chunks = <<>> THEN <<>>
    ELSE ChunkItems(Head(chunks)) \o ExtractLoop(Tail(chunks))

extract_toc_from_grounding(grounding_data) == ExtractLoop(GetChunks(grounding_data))

(* ------------------------------ inputs --------------------------------- *)
PageVals == -(MaxPages + 1) .. (MaxPages + 1)

\* entries of an explicit toc_items list: well-formed ones for every page
\* value, one without y, one without page, one carrying x/width/height
ExplicitItems ==
    {[y |-> 100, page |-> p] : p \in PageVals}
    \cup {[name |-> "X", page |-> 1]}
    \cup {[name |-> "X", y |-> 100]}
    \cup {[y |-> 200, page |-> 1, x |-> 60, width |-> 100, height |-> 20]}

GoodChunk ==
    [markdown |-> <<"x", " ", "Page", " ", "1">>,
     grounding |-> [page |-> 0, box |-> [top |-> 10, bottom |-> 14]]]

BadChunk ==
    [markdown |-> <<"Page", " ", "x">>,
     grounding |-> [page |-> 0, box |-> [top |-> 20, bottom |-> 24]]]

ContextChunks == {GoodChunk, BadChunk}

\* grounding payloads of the request model: an object with a chunks field,
\* a list holding such an object, and the empty list
HandlerPayloads ==
    {[isList |-> FALSE, val |-> [chunks |-> c]] : c \in SeqsUpTo(ContextChunks, MaxContext)}
    \cup {[isList |-> TRUE, val |-> <<[chunks |-> c]>>] : c \in SeqsUpTo(ContextChunks, MaxContext)}
    \cup {[isList |-> TRUE, val |-> <<>>]}

BorderFields == {[pdf_url |-> "u"],
                 [pdf_url |-> "u", show_borders |-> TRUE],
                 [pdf_url |-> "u", show_borders |-> FALSE]}

SynthFields ==
    {[pdf_url |-> "u"]}
    \cup {[pdf_url |-> "u", start_y |-> sy] : sy \in {0, 700}}
    \cup {[pdf_url |-> "u", spacing |-> sp] : sp \in {0, 50}}
    \cup {[pdf_url |-> "u", start_y |-> sy, spacing |-> sp] : sy \in {0, 700}, sp \in {0, 50}}

ExplicitRequests ==
    {b @@ [toc_items |-> t] : b \in BorderFields, t \in SeqsUpTo(ExplicitItems, MaxItems)}

GroundingRequests ==
    {b @@ [grounding_data |-> g] : b \in BorderFields, g \in HandlerPayloads}

\* both an explicit list and a grounding payload
BothRequests ==
    {b @@ [toc_items |-> t, grounding_data |-> [isList |-> FALSE, val |-> [chunks |-> <<GoodChunk>>]]] :
        b \in BorderFields, t \in {<<>>, <<[y |-> 100, page |-> 0]>>}}

SynthRequests == {b @@ s : b \in BorderFields, s \in SynthFields}

\* reader.pages: page i (0-based) carries content i
SourceOf(n) == [i \in 1..n |-> i - 1]

(* ---------------------------- add_navigation --------------------------- *)
\* lines 210-212: any exception ends the request with a 500 and no document
Fail ==
    /\ pc' = "error"
    /\ status' = 500

\* reader.pages[i].indirect_reference, i already normalised to 0..n-1
ReaderRef(i) == [pdf |-> "reader", idnum |-> i]

\* line 181: Python indexing, a negative index counts from the end
PyIndex(i, n) == IF i < 0 THEN n + i ELSE i

PyIndexOk(i, n) == -n <= i /\ i < n

\* line 148
InRange(target_page, n) == target_page < n

\* a rectangle taken from the item's own x, width and height
LinkRectFromItem(item) ==
    LET x == Get(item, "x", rect_left)
    IN  <<x, item.y - rect_below, x + Get(item, "width", rect_right - rect_left),
          item.y - rect_below + Get(item, "height", rect_below + rect_above)>>

\* lines 154-159
LinkRect(item) ==
    <<rect_left, item.y - rect_below, rect_right, item.y + rect_above>>

\* lines 177-183
LinkDest(target_page, n) == <<ReaderRef(PyIndex(target_page, n)), "/Fit">>

\* a link whose rectangle is inset by the border width when the border shows
BuildLinkInset(item, show_borders, n) ==
    IF show_borders
    THEN [Type |-> "/Annot", Subtype |-> "/Link",
          Rect |-> <<rect_left + 1, item.y - rect_below + 1,
                     rect_right - 1, item.y + rect_above - 1>>,
          Border |-> <<1, 1, 0>>, C |-> <<0, 0, 1>>, H |-> "/I",
          A |-> [S |-> "/GoTo", D |-> LinkDest(item.page, n)]]
    ELSE [Type |-> "/Annot", Subtype |-> "/Link", Rect |-> LinkRect(item),
          Border |-> <<0, 0, 0>>, H |-> "/I",
          A |-> [S |-> "/GoTo", D |-> LinkDest(item.page, n)]]

\* lines 149-185
BuildLink(item, show_borders, n) ==
    IF show_borders
    THEN [Type |-> "/Annot", Subtype |-> "/Link", Rect |-> LinkRect(item),
          Border |-> <<1, 1, 0>>, C |-> <<0, 0, 1>>, H |-> "/I",
          A |-> [S |-> "/GoTo", D |-> LinkDest(item.page, n)]]
    ELSE [Type |-> "/Annot", Subtype |-> "/Link", Rect |-> LinkRect(item),
          Border |-> <<0, 0, 0>>, H |-> "/I",
          A |-> [S |-> "/GoTo", D |-> LinkDest(item.page, n)]]

\* line 117: not toc_items
ExplicitGiven(d) == Has(d, "toc_items") /\ d.toc_items # <<>>

\* line 121: a list or a dict is truthy when it is not empty
GroundingGiven(d) == Has(d, "grounding_data") /\ DOMAIN d.grounding_data.val # {}

\* the first row one spacing below start_y
SynthesizeFromZero(d, n) ==
    LET start_y == Get(d, "start_y", default_start_y)
        spacing == Get(d, "spacing", default_spacing)
    IN  [i \in 1..(n - 1) |-> [y |-> start_y - (i * spacing), page |-> i]]

\* lines 126-135
Synthesize(d, n) ==
    LET start_y == Get(d, "start_y", default_start_y)
        spacing == Get(d, "spacing", default_spacing)
    IN  [i \in 1..(n - 1) |-> [y |-> start_y - ((i - 1) * spacing), page |-> i]]

\* lines 115-137
Resolve(d, n) ==
    IF ExplicitGiven(d) THEN d.toc_items
    ELSE IF GroundingGiven(d) THEN extract_toc_from_grounding(d.grounding_data)
    ELSE Synthesize(d, n)

\* lines 104-112: reader.pages[0] raises IndexError on a document without pages
LoadPDF ==
    /\ pc = "start"
    /\ page_count' = Len(source_pages)
    /\ IF Len(source_pages) = 0
       THEN Fail
       ELSE pc' = "resolve" /\ status' = status
    /\ UNCHANGED <<data, source_pages, toc_items, idx, annots, links_added,
                   writer_objects, writer_pages, grounding_in, grounding_out>>

\* lines 114-143
ResolveTargets ==
    /\ pc = "resolve"
    /\ toc_items' = Resolve(data, page_count)
    /\ annots' = <<>>
    /\ links_added' = 0
    /\ idx' = 1
    /\ pc' = IF toc_items' = <<>> THEN "import" ELSE "annotate"
    /\ UNCHANGED <<data, source_pages, page_count, writer_objects, writer_pages,
                   status, grounding_in, grounding_out>>

\* lines 145-181: the iteration raises: KeyError on item["page"], or, once
\* the bounds test has passed, KeyError on item["y"] or IndexError on
\* reader.pages[target_page]
ItemFails(item, n) ==
    \/ ~Has(item, "page")
    \/ /\ InRange(item.page, n)
       /\ ~Has(item, "y") \/ ~PyIndexOk(item.page, n)

\* lines 148-187: the iteration attaches a link
ItemAttached(item, n) == ~ItemFails(item, n) /\ InRange(item.page, n)

\* lines 144-189: one iteration of the loop over toc_items
AttachItem ==
    /\ pc = "annotate"
    /\ LET item == toc_items[idx]
           show_borders == Get(data, "show_borders", FALSE)
           next_pc == IF idx = Len(toc_items) THEN "import" ELSE "annotate"
       IN  IF ItemFails(item, page_count)
           THEN Fail /\ UNCHANGED <<idx, annots, links_added, writer_objects>>
           ELSE IF ItemAttached(item, page_count)
           THEN /\ writer_objects' =
                     Append(writer_objects, BuildLink(item, show_borders, page_count))
                /\ annots' = Append(annots, [pdf |-> "writer",
                                             idnum |-> Len(writer_objects) + 1])
                /\ links_added' = links_added + 1
                /\ idx' = idx + 1
                /\ pc' = next_pc
                /\ status' = status
           ELSE /\ idx' = idx + 1
                /\ pc' = next_pc
                /\ UNCHANGED <<annots, links_added, writer_objects, status>>
    /\ UNCHANGED <<data, source_pages, page_count, toc_items, writer_pages,
                   grounding_in, grounding_out>>

\* lines 144-189 as a function of the whole list: whether the loop runs
\* through, and the links it attaches
RECURSIVE AttachAll(_, _, _)
AttachAll(items, show_borders, n) ==
    IF items = <<>> THEN [ok |-> TRUE, links |-> <<>>]
    ELSE IF ItemFails(Head(items), n) THEN [ok |-> FALSE, links |-> <<>>]
    ELSE LET rest == AttachAll(Tail(items), show_borders, n)
             here == IF ItemAttached(Head(items), n)
                     THEN <<BuildLink(Head(items), show_borders, n)>>
                     ELSE <<>>
         IN  IF rest.ok THEN [ok |-> TRUE, links |-> here \o rest.links]
             ELSE rest

\* lines 104-189 as a function of the request and the source's page count
RunLinks(d, n) ==
    IF n = 0 THEN [ok |-> FALSE, links |-> <<>>]
    ELSE AttachAll(Resolve(d, n), Get(d, "show_borders", FALSE), n)

\* writer.add_page(page): the page is copied into the writer's graph and
\* gets an identity there.  The link dictionaries were registered in the
\* writer by _add_object before this call; their /D entries stay as line
\* 181 wrote them.
ImportPage(content, page_annots) ==
    /\ writer_objects' = Append(writer_objects,
                                [Type |-> "/Page", Contents |-> content,
                                 Annots |-> page_annots])
    /\ writer_pages' = Append(writer_pages, [pdf |-> "writer",
                                             idnum |-> Len(writer_objects) + 1])

\* line 192
AddTocPage ==
    /\ pc = "import"
    /\ writer_pages = <<>>
    /\ ImportPage(source_pages[1], annots)
    /\ pc' = IF page_count = 1 THEN "write" ELSE "import"
    /\ UNCHANGED <<data, source_pages, page_count, toc_items, idx, annots,
                   links_added, status, grounding_in, grounding_out>>

\* lines 193-194: one iteration, i = Len(writer_pages)
AddPage ==
    /\ pc = "import"
    /\ writer_pages # <<>>
    /\ ImportPage(source_pages[Len(writer_pages) + 1], <<>>)
    /\ pc' = IF Len(writer_pages) + 1 = page_count THEN "write" ELSE "import"
    /\ UNCHANGED <<data, source_pages, page_count, toc_items, idx, annots,
                   links_added, status, grounding_in, grounding_out>>

\* lines 196-208
WriteOutput ==
    /\ pc = "write"
    /\ pc' = "done"
    /\ status' = 200
    /\ UNCHANGED <<data, source_pages, page_count, toc_items, idx, annots,
                   links_added, writer_objects, writer_pages,
                   grounding_in, grounding_out>>

NoPayload == [isList |-> TRUE, val |-> <<>>]

(* ------------- inputs of extract_toc_from_grounding alone -------------- *)
\* texts of at most n symbols
Markdowns(n) == SeqsUpTo(Alphabet, n)

Boxes == {[top |-> 10, bottom |-> 14], [top |-> 50, bottom |-> 55]}

NestedChunk(m, p, b) == [markdown |-> m, grounding |-> [page |-> p, box |-> b]]

\* chunks as the code reads them, page and box under "grounding": every
\* text of at most n symbols on page 0, and a few texts on other pages and
\* at another height
NestedChunks(n) ==
    {NestedChunk(m, 0, [top |-> 10, bottom |-> 14]) : m \in Markdowns(n)}
    \cup {NestedChunk(m, p, b) : m \in {<<"Page", "2">>, <<"Page", " ", "x">>, <<"x">>},
                                 p \in {0, 1}, b \in Boxes}

InsertAt(s, k, e) == SubSeq(s, 1, k - 1) \o <<e>> \o SubSeq(s, k, Len(s))

\* chunk lists: every chunk of NestedChunks(n) at every position of every
\* list of at most k ContextChunks
ChunkLists(n, k) ==
    SeqsUpTo(ContextChunks, k)
    \cup UNION {{InsertAt(ctx, j, c) : j \in 1..(Len(ctx) + 1), c \in NestedChunks(n)} :
                    ctx \in SeqsUpTo(ContextChunks, k)}

\* the same chunk with page and box at the top level
FlatChunk(c) ==
    [page |-> c.grounding.page, markdown |-> c.markdown, box |-> c.grounding.box]

FlatList(l) == [i \in 1..Len(l) |-> FlatChunk(l[i])]

\* payloads: an object with a chunks field, a list whose first element is
\* such an object, a list of two such objects, and both shapes around
\* chunks with page and box at the top level
ExtractPayloads(n, k) ==
    {[isList |-> FALSE, val |-> [chunks |-> l]] : l \in ChunkLists(n, k)}
    \cup {[isList |-> TRUE, val |-> <<[chunks |-> l]>>] : l \in ChunkLists(n, k)}
    \cup {[isList |-> TRUE, val |-> <<[chunks |-> l], [chunks |-> <<GoodChunk>>]>>] :
             l \in SeqsUpTo(ContextChunks, k)}
    \cup {[isList |-> TRUE, val |-> FlatList(l)] : l \in ChunkLists(n, k)}
    \cup {[isList |-> FALSE, val |-> [chunks |-> FlatList(l)]] : l \in ChunkLists(n, k)}

\* a call of extract_toc_from_grounding (lines 20-83)
Extract ==
    /\ pc = "extract"
    /\ grounding_out' = extract_toc_from_grounding(grounding_in)
    /\ pc' = "extracted"
    /\ UNCHANGED <<data, source_pages, page_count, toc_items, idx, annots,
                   links_added, writer_objects, writer_pages, status,
                   grounding_in>>

InitExtract ==
    /\ grounding_in \in ExtractPayloads(MaxLen, MaxContext)
    /\ grounding_out = <<>>
    /\ pc = "extract"
    /\ data = [pdf_url |-> "u"]
    /\ source_pages = <<>>
    /\ page_count = 0
    /\ toc_items = <<>>
    /\ idx = 0
    /\ annots = <<>>
    /\ links_added = 0
    /\ writer_objects = <<>>
    /\ writer_pages = <<>>
    /\ status = 0

NextExtract == Extract

SpecExtract == InitExtract /\ [][NextExtract]_vars

Init ==
    /\ \/ data \in ExplicitRequests \cup GroundingRequests \cup BothRequests
          /\ source_pages \in {SourceOf(n) : n \in 0..MaxPages}
       \/ data \in SynthRequests
          /\ source_pages \in {SourceOf(n) : n \in 0..MaxSynthPages}
    /\ pc = "start"
    /\ page_count = 0
    /\ toc_items = <<>>
    /\ idx = 0
    /\ annots = <<>>
    /\ links_added = 0
    /\ writer_objects = <<>>
    /\ writer_pages = <<>>
    /\ status = 0
    /\ grounding_in = NoPayload
    /\ grounding_out = <<>>

Next == LoadPDF \/ ResolveTargets \/ AttachItem \/ AddTocPage \/ AddPage \/ WriteOutput

Spec == Init /\ [][Next]_vars

(* ======================= properties of the handler ===================== *)
IsLink(o) == o.Type = "/Annot"

\* the link annotations in the writer's graph, in the order they were added
Links == SelectSeq(writer_objects, IsLink)

\* the identities the output document owns for its pages
OutputPageIds == {writer_pages[i] : i \in 1..Len(writer_pages)}

Resolved == pc \in {"annotate", "import", "write", "done"}

Finished == pc \in {"done", "error"}

WellFormed(item) == Has(item, "page") /\ Has(item, "y")

InBounds(item) == 0 <= item.page /\ item.page < Len(source_pages)

AllValid(s) == \A i \in 1..Len(s) : WellFormed(s[i]) /\ InBounds(s[i])

\* the number of entries of s[1..k] that are well-formed and in bounds
RECURSIVE CountValid(_, _)
CountValid(s, k) ==
    IF k = 0 THEN 0
    ELSE CountValid(s, k - 1)
         + (IF WellFormed(s[k]) /\ InBounds(s[k]) THEN 1 ELSE 0)

\* C1: the destination of every attached link is the identity the output
\* document owns for page destinationPageIndex, never one of the source
\* document (stated for target lists whose entries are all valid, where
\* link k is built from target k)
C1_OutputLocalDest ==
    (pc = "done" /\ AllValid(toc_items)) =>
        \A k \in 1..Len(Links) :
            /\ Links[k].A.D[1] \in OutputPageIds
            /\ Links[k].A.D[1] = writer_pages[toc_items[k].page + 1]

\* C2: no link annotation is built while some source page is still to be
\* imported into the output graph
C2_ImportBeforeLinks ==
    [][links_added' > links_added => Len(writer_pages) = Len(source_pages)]_vars

\* C3: the request never fails and the output has the source's pages, in
\* order; a source without pages gives an output without pages or links
C3_PagePreserved ==
    Finished =>
        /\ status = 200
        /\ Len(writer_pages) = Len(source_pages)
        /\ \A i \in 1..Len(writer_pages) :
              writer_objects[writer_pages[i].idnum].Contents = source_pages[i]
        /\ (Len(source_pages) = 0 => links_added = 0)

\* C4: of targets that carry y and page, exactly those with
\* 0 <= page < page count are attached, none is fatal, and links_added
\* counts them
C4_InRangeAttached ==
    (/\ pc \in {"annotate", "import", "write", "done", "error"}
     /\ Len(source_pages) >= 1
     /\ \A i \in 1..Len(toc_items) : WellFormed(toc_items[i]))
    => /\ pc # "error"
       /\ links_added = CountValid(toc_items, idx - 1)

\* C5: an explicit item without y or without page is skipped, the request
\* still succeeds and the well-formed in-range items are all attached
C5_MalformedSkipped ==
    (/\ ExplicitGiven(data)
     /\ Len(source_pages) >= 1
     /\ \A i \in 1..Len(data.toc_items) :
           Has(data.toc_items[i], "page") => data.toc_items[i].page >= 0)
    => /\ pc # "error"
       /\ (pc = "done" =>
              links_added = CountValid(data.toc_items, Len(data.toc_items)))

\* C6: the targets are the explicit list when one is supplied, else the
\* grounding-derived ones when a payload is supplied, else the synthesized
\* ones; a supplied list or payload without targets gives no link at all
C6_Precedence ==
    Resolved =>
        /\ toc_items =
             IF Has(data, "toc_items") THEN data.toc_items
             ELSE IF Has(data, "grounding_data")
                  THEN extract_toc_from_grounding(data.grounding_data)
                  ELSE Synthesize(data, page_count)
        /\ (pc = "done" /\ toc_items = <<>> =>
               links_added = 0 /\ writer_objects[writer_pages[1].idnum].Annots = <<>>)

\* the same request with the border flag toggled
Flip(d) == [show_borders |-> ~Get(d, "show_borders", FALSE)] @@ d

\* C7: the run with show_borders toggled ends the same way and attaches
\* the same number of links with pairwise the same rectangle and
\* destination; the border differs and the highlight mode is invert in both
C7_BorderFlag ==
    Finished =>
        LET other == RunLinks(Flip(data), Len(source_pages))
        IN  /\ other.ok = (pc = "done")
            /\ pc = "done" =>
                 /\ Len(other.links) = links_added
                 /\ Len(Links) = links_added
                 /\ \A k \in 1..Len(Links) :
                       /\ Links[k].Rect = other.links[k].Rect
                       /\ Links[k].A = other.links[k].A
                       /\ Links[k].H = "/I" /\ other.links[k].H = "/I"
                       /\ Links[k].Border # other.links[k].Border

C7_Witness ==
    /\ pc = "done"
    /\ links_added >= 2
    /\ Has(data, "show_borders") /\ data.show_borders
    /\ Has(Links[1], "C")

\* the items of toc_items[1..idx-1] that were attached, in order
AttachedItems ==
    LET Attached(it) == ItemAttached(it, page_count)
    IN  SelectSeq(SubSeq(toc_items, 1, idx - 1), Attached)

\* C9 as stated: the rectangle is (x, y, x+width, y+height) with x, width
\* and height defaulting to 50, 520 and 35
C9_Original ==
    (Resolved /\ ExplicitGiven(data) /\ AllValid(toc_items)) =>
        \A k \in 1..Len(Links) :
            LET it == AttachedItems[k]
                x == Get(it, "x", 50)
                w == Get(it, "width", 520)
                h == Get(it, "height", 35)
            IN  Links[k].Rect = <<x, it.y, x + w, it.y + h>>

\* C9 amended: the rectangle of a link built from an explicit target is
\* (50, y-10, 570, y+30); x, width and height are not consulted
C9_FixedRect ==
    (Resolved /\ ExplicitGiven(data)) =>
        /\ Len(Links) = Len(AttachedItems)
        /\ \A k \in 1..Len(Links) :
              Links[k].Rect = <<50, AttachedItems[k].y - 10, 570, AttachedItems[k].y + 30>>

C9_Witness ==
    /\ pc = "done"
    /\ ExplicitGiven(data)
    /\ Len(Links) = 2
    /\ Has(AttachedItems[1], "x") /\ ~Has(AttachedItems[2], "x")
    /\ Links[1].Rect = <<50, 190, 570, 230>>

\* C10: without explicit list and grounding payload, a source of n >= 1
\* pages gives the targets y = start_y - (i-1)*spacing, page i, for
\* i = 1..n-1 in order (defaults 650 and 60), and all n-1 become links
C10_Synthesized ==
    (/\ ~Has(data, "toc_items")
     /\ ~Has(data, "grounding_data")
     /\ Len(source_pages) >= 1)
    => LET n == Len(source_pages)
           sy == IF Has(data, "start_y") THEN data.start_y ELSE 650
           sp == IF Has(data, "spacing") THEN data.spacing ELSE 60
       IN  /\ pc # "error"
           /\ Resolved =>
                /\ Len(toc_items) = n - 1
                /\ \A i \in 1..(n - 1) :
                      toc_items[i] = [y |-> sy - (i - 1) * sp, page |-> i]
           /\ pc = "done" =>
                /\ links_added = n - 1
                /\ Len(Links) = n - 1
                /\ \A i \in 1..(n - 1) : Links[i].A.D[1].idnum = i

C10_Witness ==
    /\ pc = "done"
    /\ DOMAIN data = {"pdf_url"}
    /\ Len(source_pages) = 8
    /\ [i \in 1..7 |-> toc_items[i].y] = <<650, 590, 530, 470, 410, 350, 290>>
    /\ [i \in 1..7 |-> toc_items[i].page] = <<1, 2, 3, 4, 5, 6, 7>>
    /\ links_added = 7

(* ============ properties of extract_toc_from_grounding ================= *)
\* the position of the last "Page" in m
LastPagePos(m) ==
    CHOOSE p \in 1..Len(m) : m[p] = "Page" /\ \A q \in (p + 1)..Len(m) : m[q] # "Page"

\* the first whitespace-delimited token after the last "Page"; <<>> if none
TokenAfterPage(m) ==
    LET p == LastPagePos(m)
        starts == {a \in (p + 1)..Len(m) : m[a] # " "}
    IN  IF starts = {} THEN <<>>
        ELSE LET a == CHOOSE x \in starts : \A z \in starts : x <= z
                 ends == {b \in a..Len(m) : \A q \in a..b : m[q] # " "}
                 b == CHOOSE x \in ends : \A z \in ends : z <= x
             IN  SubSeq(m, a, b)

IsDecimal(t) == t # <<>> /\ \A i \in 1..Len(t) : t[i] \in {"1", "2"}

RECURSIVE DecimalFrom(_, _)
DecimalFrom(t, i) ==
    IF i > Len(t) THEN 0
    ELSE (IF t[i] = "1" THEN 1 ELSE 2) * 10 ^ (Len(t) - i) + DecimalFrom(t, i + 1)

HasPageNumber(m) ==
    /\ \E i \in 1..Len(m) : m[i] = "Page"
    /\ IsDecimal(TokenAfterPage(m))

\* C8 as stated: chunks are {page, markdown, box} and the payload is a list
\* of them or an object with a chunks field
StatedChunks(g) == IF g.isList THEN g.val ELSE g.val.chunks

StatedQualifies(c) ==
    Has(c, "page") /\ c.page = 0 /\ Has(c, "markdown") /\ HasPageNumber(c.markdown)

IsStatedShape(g) ==
    \A i \in 1..Len(StatedChunks(g)) :
        DOMAIN StatedChunks(g)[i] = {"page", "markdown", "box"}

\* C8 as stated: one target per chunk {page, markdown, box} with page = 0
\* and a page number after the last "Page", in chunk order, with
\* y = 792 * (1 - (top + bottom) / 2) to within one unit
C8_Original ==
    (pc = "extracted" /\ IsStatedShape(grounding_in)) =>
        LET Q == SelectSeq(StatedChunks(grounding_in), StatedQualifies)
        IN  /\ Len(grounding_out) = Len(Q)
            /\ \A i \in 1..Len(Q) :
                  /\ grounding_out[i].page = DecimalFrom(TokenAfterPage(Q[i].markdown), 1)
                  /\ LET exact == 792 * (200 - (Q[i].box.top + Q[i].box.bottom))
                         d == 200 * grounding_out[i].y - exact
                     IN  -200 < d /\ d < 200

\* C8 amended: the chunks are those of the payload object, or of the first
\* element of a payload list; page and box are read under "grounding"
AmendedChunks(g) ==
    IF g.isList
    THEN IF Len(g.val) = 0 \/ ~Has(g.val[1], "chunks") THEN <<>> ELSE g.val[1].chunks
    ELSE IF Has(g.val, "chunks") THEN g.val.chunks ELSE <<>>

AmendedQualifies(c) ==
    /\ Has(c, "grounding") /\ Has(c.grounding, "page") /\ c.grounding.page = 0
    /\ Has(c, "markdown") /\ HasPageNumber(c.markdown)

\* the integer part of 792 * (1 - (top + bottom) / 2), top and bottom in
\* hundredths
FloorY(box) ==
    CHOOSE y \in 0..792 :
        /\ 200 * y <= 792 * (200 - (box.top + box.bottom))
        /\ 792 * (200 - (box.top + box.bottom)) < 200 * (y + 1)

\* C8 amended: exactly one target per chunk of AmendedChunks whose
\* grounding.page is 0 and whose text has an integer token after the last
\* "Page", in chunk order, with that integer as page and the integer part
\* of 792 * (1 - (top + bottom) / 2) as y; other chunks give no target
C8_Extract ==
    pc = "extracted" =>
        LET Q == SelectSeq(AmendedChunks(grounding_in), AmendedQualifies)
        IN  /\ Len(grounding_out) = Len(Q)
            /\ \A i \in 1..Len(Q) :
                  /\ grounding_out[i].page = DecimalFrom(TokenAfterPage(Q[i].markdown), 1)
                  /\ grounding_out[i].y = FloorY(Q[i].grounding.box)

C8_Witness ==
    /\ pc = "extracted"
    /\ grounding_in.isList
    /\ Len(AmendedChunks(grounding_in)) = 2
    /\ AmendedChunks(grounding_in)[1].markdown = <<"Page", " ", "x">>
    /\ AmendedChunks(grounding_in)[1].grounding.page = 0
    /\ AmendedChunks(grounding_in)[2] = GoodChunk
    /\ Len(grounding_out) = 1
    /\ grounding_out[1].page = 1 /\ grounding_out[1].y = 696

====
